---- MODULE Spec2Model ----
(***************************************************************************)
(* Model of microsservico-clima:                                           *)
(*   scripts/extrair_clima.py  one-shot batch script: fetch -> extract ->  *)
(*                             insert into table clima                     *)
(*   api/main.py               FastAPI service: GET /clima and             *)
(*                             GET /clima/{cidade} over the same table     *)
(* The two halves share only the table clima.  Strings that are matched    *)
(* (city names, request texts) are sequences of one-character strings.     *)
(***************************************************************************)
EXTENDS Integers, Sequences, FiniteSets, TLC

VARIABLES
    tabela,           \* committed rows of table clima, in insertion order
    agora,            \* database clock: the last value handed out for data_insercao
    conexoes,         \* database connections currently open
    \* ---- batch script (one process invocation at a time)
    bpc,              \* position of the script
    execucoes,        \* invocations started so far
    resposta,         \* what the weather service did with this invocation's request
    saida,            \* diagnostic printed by buscar_dados_climaticos
    dados_brutos,     \* __main__: dados_brutos
    dados_filtrados,  \* __main__: dados_filtrados
    wconn,            \* salvar_dados_no_bd: conn
    transacao,        \* rows inserted by the open transaction, not yet committed
    werro,            \* salvar_dados_no_bd: an exception occurred in this call
    antes,            \* table contents when salvar_dados_no_bd was called
    eventos,          \* external calls made by this invocation, in order
    \* ---- query service
    req               \* per request slot: position, endpoint, path text, conn, response

vars == << tabela, agora, conexoes, bpc, execucoes, resposta, saida, dados_brutos,
           dados_filtrados, wconn, transacao, werro, antes, eventos, req >>

loteVars == << bpc, execucoes, resposta, saida, dados_brutos, dados_filtrados,
               wconn, transacao, werro, antes, eventos >>

-----------------------------------------------------------------------------
(* Bounds *)

MaxExecucoes == 2

-----------------------------------------------------------------------------
(* Python values *)

\* None where a dict is expected
Nada == [py |-> "None"]

\* None where a connection is expected
SemConexao == << "None" >>

\* psycopg2.connect returns a new connection object on every call; an object is
\* identified by the invocation that created it
NovaConexao(dono) == << "conn", dono >>

\* Python truthiness of a dict-or-None value
Verdadeiro(d) == d # Nada /\ DOMAIN d # {}

-----------------------------------------------------------------------------
(* The weather service's answers *)

Floripa == << "F", "l", "o", "r", "i", "p", "a" >>
Lages   == << "L", "a", "g", "e", "s" >>
CityNames == { Floripa, Lages }

\* a complete OpenWeather "current weather" body for one city
Completo(c) ==
    [ name    |-> c,
      sys     |-> [ country |-> "BR" ],
      main    |-> [ temp |-> 25, feels_like |-> 27, temp_min |-> 21,
                    temp_max |-> 29, humidity |-> 80 ],
      weather |-> << [ main |-> "Clouds", description |-> "nublado" ] >>,
      wind    |-> [ speed |-> 5 ],
      dt      |-> 1700 ]

SemChave(d, k) == [ x \in DOMAIN d \ {k} |-> d[x] ]

\* bodies in which one required field (or the object that holds it) is absent
Incompletos(b) ==
    { SemChave(b, k) : k \in { "name", "sys", "main", "weather", "wind", "dt" } }
    \cup { [ b EXCEPT !.sys = SemChave(b.sys, "country") ] }
    \cup { [ b EXCEPT !.main = SemChave(b.main, k) ] :
             k \in { "temp", "feels_like", "temp_min", "temp_max", "humidity" } }
    \cup { [ b EXCEPT !.wind = SemChave(b.wind, "speed") ] }
    \cup { [ b EXCEPT !.weather = << SemChave(b.weather[1], "description") >> ] }
    \cup { [ b EXCEPT !.weather = << >> ] }

Corpos == { Completo(c) : c \in CityNames } \cup Incompletos(Completo(Floripa))

\* outcome of requests.get + raise_for_status + response.json
Respostas ==
    { [ kind |-> "ok", body |-> b ] : b \in Corpos }
    \cup { [ kind |-> "http", status |-> s ] : s \in { 401, 404, 500 } }
    \cup { [ kind |-> "network" ], [ kind |-> "badjson" ] }

\* the answers tried when the script runs beside the query service
RespostasBasicas ==
    { [ kind |-> "ok", body |-> Completo(c) ] : c \in CityNames }
    \cup { [ kind |-> "http", status |-> 404 ] }

SemResposta == [ kind |-> "none" ]

-----------------------------------------------------------------------------
(* buscar_dados_climaticos *)

buscar_status_como_retorno(o) ==
    CASE o.kind = "ok"   -> [ ret |-> o.body, log |-> "" ]
      [] o.kind = "http" -> [ ret |-> [ erro |-> o.status ], log |-> "Erro HTTP" ]
      [] OTHER           -> [ ret |-> [ erro |-> o.kind ], log |-> "Erro na requisicao" ]

buscar_dados_climaticos(o) ==
    CASE o.kind = "ok" -> [ ret |-> o.body, log |-> "" ]
      [] o.kind = "http" /\ o.status = 401 ->
            [ ret |-> Nada, log |-> "Erro: Chave de API invalida ou nao ativada." ]
      [] o.kind = "http" /\ o.status = 404 ->
            [ ret |-> Nada, log |-> "Erro: Cidade nao encontrada." ]
      [] o.kind = "http" -> [ ret |-> Nada, log |-> "Erro HTTP" ]
      [] o.kind = "network" -> [ ret |-> Nada, log |-> "Erro na requisicao" ]
      \* response.json() failed: caught as RequestException or, with an older
      \* requests, as Exception; either way a line is printed
      [] OTHER -> [ ret |-> Nada, log |-> "Erro na requisicao" ]

-----------------------------------------------------------------------------
(* extrair_info_interesse *)

\* the ten subscript expressions of the dict literal, in evaluation order
Campos ==
    << [ chave |-> "cidade",              caminho |-> << "name" >> ],
       [ chave |-> "pais",                caminho |-> << "sys", "country" >> ],
       [ chave |-> "temperatura_c",       caminho |-> << "main", "temp" >> ],
       [ chave |-> "sensacao_termica_c",  caminho |-> << "main", "feels_like" >> ],
       [ chave |-> "temp_min_c",          caminho |-> << "main", "temp_min" >> ],
       [ chave |-> "temp_max_c",          caminho |-> << "main", "temp_max" >> ],
       [ chave |-> "umidade_pct",         caminho |-> << "main", "humidity" >> ],
       [ chave |-> "descricao",           caminho |-> << "weather", "[0]", "description" >> ],
       [ chave |-> "velocidade_vento_ms", caminho |-> << "wind", "speed" >> ],
       [ chave |-> "timestamp_coleta",    caminho |-> << "dt" >> ] >>

Chaves == { Campos[i].chave : i \in DOMAIN Campos }

\* Python subscripting along a path: d[k] raises KeyError, l[0] raises IndexError
RECURSIVE Subscrito(_, _)
Subscrito(v, caminho) ==
    IF caminho = << >> THEN [ exc |-> "none", val |-> v ]
    ELSE IF Head(caminho) = "[0]"
         THEN IF Len(v) >= 1 THEN Subscrito(v[1], Tail(caminho))
                             ELSE [ exc |-> "IndexError" ]
         ELSE IF Head(caminho) \in DOMAIN v THEN Subscrito(v[Head(caminho)], Tail(caminho))
                                            ELSE [ exc |-> "KeyError" ]

\* the first subscript expression that raises, 0 when none does
PrimeiraFalha(d) ==
    LET ruins == { i \in DOMAIN Campos : Subscrito(d, Campos[i].caminho).exc # "none" }
    IN  IF ruins = {} THEN 0 ELSE CHOOSE i \in ruins : \A j \in ruins : i <= j

DictExtraido(d) ==
    [ k \in Chaves |->
        LET i == CHOOSE j \in DOMAIN Campos : Campos[j].chave = k
        IN  Subscrito(d, Campos[i].caminho).val ]

\* result: the value returned, or the exception that leaves the function
extrair_info_interesse(d) ==
    IF d = Nada THEN [ raised |-> "none", ret |-> Nada ]
    ELSE LET i == PrimeiraFalha(d) IN
         IF i = 0 THEN [ raised |-> "none", ret |-> DictExtraido(d) ]
         ELSE LET exc == Subscrito(d, Campos[i].caminho).exc IN
              IF exc = "KeyError" THEN [ raised |-> "none", ret |-> Nada ]
                                  ELSE [ raised |-> exc, ret |-> Nada ]

-----------------------------------------------------------------------------
(* salvar_dados_no_bd *)

\* column list of the INSERT statement
Colunas == << "cidade", "pais", "temperatura_c", "sensacao_termica_c", "temp_min_c",
              "temp_max_c", "umidade_pct", "descricao", "velocidade_vento_ms",
              "timestamp_coleta" >>

valores_trocados(dados) ==
    << dados["cidade"], dados["pais"], dados["temperatura_c"],
       dados["sensacao_termica_c"], dados["temp_max_c"], dados["temp_min_c"],
       dados["umidade_pct"], dados["descricao"], dados["velocidade_vento_ms"],
       dados["timestamp_coleta"] >>

\* the tuple of parameters bound to the statement's placeholders
valores(dados) ==
    << dados["cidade"], dados["pais"], dados["temperatura_c"],
       dados["sensacao_termica_c"], dados["temp_min_c"], dados["temp_max_c"],
       dados["umidade_pct"], dados["descricao"], dados["velocidade_vento_ms"],
       dados["timestamp_coleta"] >>

\* the row INSERT builds: placeholders bound positionally, data_insercao by default
Linha(vals, ts) ==
    [ c \in { Colunas[i] : i \in DOMAIN Colunas } \cup { "data_insercao" } |->
        IF c = "data_insercao" THEN ts
        ELSE vals[CHOOSE i \in DOMAIN Colunas : Colunas[i] = c] ]

\* column default of data_insercao: the database's clock, which never runs backwards
data_insercao_padrao(relogio, d) == relogio + d

commit_substitui(t, linhas) == linhas

\* conn.commit(): the transaction's rows become visible, after the rows already there
commit(t, linhas) == t \o linhas

rollback(linhas) == << >>

\* finally: conn.close() when a connection was opened
fechar_w(c, abertas) ==
    IF c # SemConexao THEN { x \in abertas : x.id # c } ELSE abertas

-----------------------------------------------------------------------------
(* The batch script, step by step *)

Reqs == { "r1", "r2" }

Buscar_de_novo(o) ==
    /\ bpc \in { "start", "fetched" }
    /\ bpc = "fetched" => ~Verdadeiro(dados_brutos)
    /\ execucoes < MaxExecucoes
    /\ execucoes' = IF bpc = "start" THEN execucoes + 1 ELSE execucoes
    /\ resposta' = o
    /\ dados_brutos' = buscar_dados_climaticos(o).ret
    /\ saida' = buscar_dados_climaticos(o).log
    /\ eventos' = Append(eventos, "http")
    /\ bpc' = "fetched"
    /\ UNCHANGED << tabela, agora, conexoes, dados_filtrados, wconn, transacao,
                    werro, antes, req >>

\* requests.get(BASE_URL, params) and the rest of buscar_dados_climaticos
Buscar(o) ==
    /\ bpc = "start"
    /\ execucoes < MaxExecucoes
    /\ execucoes' = execucoes + 1
    /\ resposta' = o
    /\ dados_brutos' = buscar_dados_climaticos(o).ret
    /\ saida' = buscar_dados_climaticos(o).log
    /\ eventos' = << "http" >>
    /\ bpc' = "fetched"
    /\ UNCHANGED << tabela, agora, conexoes, dados_filtrados, wconn, transacao,
                    werro, antes, req >>

\* if dados_brutos: dados_filtrados = extrair_info_interesse(dados_brutos)
Extrair ==
    /\ bpc = "fetched"
    /\ IF Verdadeiro(dados_brutos)
       THEN LET r == extrair_info_interesse(dados_brutos) IN
            /\ eventos' = Append(eventos, "extract")
            /\ IF r.raised # "none"
               THEN /\ bpc' = "crashed"
                    /\ UNCHANGED dados_filtrados
               ELSE /\ dados_filtrados' = r.ret
                    /\ bpc' = IF Verdadeiro(r.ret) THEN "extracted" ELSE "exit"
       ELSE /\ bpc' = "exit"
            /\ UNCHANGED << eventos, dados_filtrados >>
    /\ UNCHANGED << tabela, agora, conexoes, execucoes, resposta, saida, dados_brutos,
                    wconn, transacao, werro, antes, req >>

\* salvar_dados_no_bd up to conn.cursor(): psycopg2.connect succeeds or raises Error
Conectar(ok) ==
    /\ bpc = "extracted"
    /\ antes' = tabela
    /\ IF dados_filtrados = Nada
       THEN \* if dados is None: return
            /\ bpc' = "exit"
            /\ UNCHANGED << eventos, wconn, werro, conexoes >>
       ELSE /\ eventos' = Append(eventos, "connect")
            /\ IF ok
               THEN /\ wconn' = NovaConexao("lote")
                    /\ conexoes' = conexoes \cup { [ id |-> wconn', dono |-> "lote" ] }
                    /\ werro' = FALSE
                    /\ bpc' = "w_connected"
               ELSE \* except Error: conn is None, nothing to roll back or close
                    /\ wconn' = SemConexao
                    /\ werro' = TRUE
                    /\ bpc' = "exit"
                    /\ UNCHANGED conexoes
    /\ UNCHANGED << tabela, agora, execucoes, resposta, saida, dados_brutos,
                    dados_filtrados, transacao, req >>

\* cursor.execute(query, valores); the clock may have advanced by d since the last insert
Inserir(ok, d) ==
    /\ bpc = "w_connected"
    /\ eventos' = Append(eventos, "insert")
    /\ IF ok
       THEN /\ agora' = data_insercao_padrao(agora, d)
            /\ transacao' = Append(transacao, Linha(valores(dados_filtrados), agora'))
            /\ bpc' = "w_executed"
            /\ UNCHANGED << werro, conexoes >>
       ELSE \* except Error: conn.rollback(); finally: close
            /\ transacao' = rollback(transacao)
            /\ werro' = TRUE
            /\ conexoes' = fechar_w(wconn, conexoes)
            /\ bpc' = "exit"
            /\ UNCHANGED agora
    /\ UNCHANGED << tabela, execucoes, resposta, saida, dados_brutos, dados_filtrados,
                    wconn, antes, req >>

\* conn.commit(), then the finally block
Commit(ok) ==
    /\ bpc = "w_executed"
    /\ eventos' = Append(eventos, "commit")
    /\ IF ok
       THEN /\ tabela' = commit(tabela, transacao)
            /\ transacao' = << >>
            /\ UNCHANGED werro
       ELSE /\ transacao' = rollback(transacao)
            /\ werro' = TRUE
            /\ UNCHANGED tabela
    /\ conexoes' = fechar_w(wconn, conexoes)
    /\ bpc' = "exit"
    /\ UNCHANGED << agora, execucoes, resposta, saida, dados_brutos, dados_filtrados,
                    wconn, antes, req >>

\* the process ends (normally or on an uncaught exception); a later invocation starts fresh
Sair ==
    /\ bpc \in { "exit", "crashed" }
    /\ bpc' = "start"
    /\ resposta' = SemResposta
    /\ saida' = ""
    /\ dados_brutos' = Nada
    /\ dados_filtrados' = Nada
    /\ wconn' = SemConexao
    /\ werro' = FALSE
    /\ antes' = << >>
    /\ eventos' = << >>
    /\ UNCHANGED << tabela, agora, conexoes, execucoes, transacao, req >>

-----------------------------------------------------------------------------
(* The queries of api/main.py *)

\* case folding of the characters that occur in names and request texts
Minuscula(c) ==
    CASE c = "F" -> "f" [] c = "L" -> "l" [] c = "A" -> "a" [] c = "G" -> "g"
      [] OTHER -> c

Minusculas(s) == [ i \in DOMAIN s |-> Minuscula(s[i]) ]

\* SQL LIKE: % matches any run of characters, _ any one character, \ quotes the next
\* (a pattern that ends in a lone \ is rejected; Padrao never builds one)
RECURSIVE Like(_, _)
Like(s, p) ==
    IF p = << >> THEN s = << >>
    ELSE IF Head(p) = "%"
         THEN Like(s, Tail(p)) \/ (s # << >> /\ Like(Tail(s), p))
    ELSE IF Head(p) = "_"
         THEN s # << >> /\ Like(Tail(s), Tail(p))
    ELSE IF Head(p) = "\\"
         THEN Len(p) >= 2 /\ s # << >> /\ Head(s) = p[2] /\ Like(Tail(s), Tail(Tail(p)))
    ELSE s # << >> /\ Head(s) = Head(p) /\ Like(Tail(s), Tail(p))

\* s ILIKE p
ILike(s, p) == Like(Minusculas(s), Minusculas(p))

\* the parameter bound to the placeholder: f"%{cidade}%"
Padrao(cidade) == << "%" >> \o cidade \o << "%" >>

ordem_crescente(linhas) ==
    \A i \in 1 .. (Len(linhas) - 1) :
        linhas[i]["data_insercao"] <= linhas[i + 1]["data_insercao"]

\* ORDER BY data_insercao DESC
ordem_desc(linhas) ==
    \A i \in 1 .. (Len(linhas) - 1) :
        linhas[i]["data_insercao"] >= linhas[i + 1]["data_insercao"]

\* the row sequences a SELECT over the rows at positions idx may return: every
\* arrangement of them that ORDER BY allows (rows with equal keys come in any order)
Ordenadas(t, idx) ==
    LET n == Cardinality(idx)
        arranjos == { f \in [ 1 .. n -> idx ] : \A a, b \in 1 .. n : a # b => f[a] # f[b] }
    IN  { l \in { [ k \in 1 .. n |-> t[f[k]] ] : f \in arranjos } : ordem_desc(l) }

\* WHERE cidade ILIKE %s
select_where(t, cidade) == { i \in DOMAIN t : ILike(t[i]["cidade"], Padrao(cidade)) }

\* "SELECT * FROM clima ORDER BY data_insercao DESC"
SelectTodos(t) == Ordenadas(t, DOMAIN t)

\* "SELECT * FROM clima WHERE cidade ILIKE %s ORDER BY data_insercao DESC"
SelectPorCidade(t, cidade) == Ordenadas(t, select_where(t, cidade))

-----------------------------------------------------------------------------
(* The handlers of api/main.py *)

Todos     == "/clima"
PorCidade == "/clima/{cidade}"

\* path texts tried for {cidade}
Textos == { << "f", "L", "O" >>, << "z" >>, << "_" >> }

ReqVazio == [ pc |-> "idle", endpoint |-> "", cidade |-> << >>, conn |-> SemConexao,
              status |-> 0, body |-> << >>, visto |-> << >>, dbfalhou |-> FALSE,
              usou |-> "" ]

\* get_db_connection: a new connection, or None when psycopg2.connect raises Error
get_db_connection(ok, r) ==
    IF ok THEN NovaConexao(r) ELSE SemConexao

\* conn is a local of the handler
conn_local(r) == req[r].conn

todos_falha_vira_200(dbok, registros) ==
    [ status |-> 200, body |-> IF dbok THEN registros ELSE << >> ]

\* try / except Error of get_clima_todos
get_clima_todos_try(dbok, registros) ==
    IF ~dbok THEN [ status |-> 500, body |-> << >> ]
    ELSE [ status |-> 200, body |-> registros ]

\* try / except Error of get_clima_por_cidade: the HTTPException(404) is no
\* psycopg2.Error, so the except clause lets it through
get_clima_por_cidade_try(dbok, registros) ==
    IF ~dbok THEN [ status |-> 500, body |-> << >> ]
    ELSE IF registros = << >> THEN [ status |-> 404, body |-> << >> ]
    ELSE [ status |-> 200, body |-> registros ]

fechar_esquece(c, abertas) == abertas

\* finally: if conn: conn.close()
fechar(c, abertas) ==
    IF c # SemConexao THEN { x \in abertas : x.id # c } ELSE abertas

\* A response stays in its slot until the server has written it out.  Writing it out
\* touches nothing the handlers read, so it is taken before the next response is made.
NadaPorEnviar == \A q \in Reqs : req[q].pc # "responded"

\* a request arrives; the handler runs get_db_connection and the None check
Receber(r, ep, cidade, ok) ==
    /\ req[r].pc = "idle"
    /\ LET c == get_db_connection(ok, r) IN
       IF c = SemConexao
       THEN /\ NadaPorEnviar
            /\ req' = [ req EXCEPT ![r] = [ ReqVazio EXCEPT !.pc = "responded",
                            !.endpoint = ep, !.cidade = cidade, !.status = 500,
                            !.dbfalhou = TRUE, !.visto = tabela ] ]
            /\ UNCHANGED conexoes
       ELSE /\ req' = [ req EXCEPT ![r] = [ ReqVazio EXCEPT !.pc = "connected",
                            !.endpoint = ep, !.cidade = cidade, !.conn = c ] ]
            /\ conexoes' = conexoes \cup { [ id |-> c, dono |-> r ] }
    /\ UNCHANGED << tabela, agora >>
    /\ UNCHANGED loteVars

\* the try / except / finally of the handler: cursor, execute, fetchall, response, close
Consultar(r, dbok) ==
    /\ req[r].pc = "connected"
    /\ NadaPorEnviar
    /\ LET c == conn_local(r)
           possiveis == IF req[r].endpoint = Todos
                        THEN SelectTodos(tabela)
                        ELSE SelectPorCidade(tabela, req[r].cidade)
       IN  \E registros \in possiveis :
             LET resp == IF req[r].endpoint = Todos
                         THEN get_clima_todos_try(dbok, registros)
                         ELSE get_clima_por_cidade_try(dbok, registros)
             IN  /\ req' = [ req EXCEPT ![r].pc = "responded",
                                        ![r].status = resp.status,
                                        ![r].body = resp.body,
                                        ![r].visto = tabela,
                                        ![r].dbfalhou = ~dbok,
                                        ![r].usou = (CHOOSE x \in conexoes : x.id = c).dono ]
                 /\ conexoes' = fechar(c, conexoes)
    /\ UNCHANGED << tabela, agora >>
    /\ UNCHANGED loteVars

\* the response has been sent; the slot takes the next request
Devolver(r) ==
    /\ req[r].pc = "responded"
    /\ req' = [ req EXCEPT ![r] = ReqVazio ]
    /\ UNCHANGED << tabela, agora, conexoes >>
    /\ UNCHANGED loteVars

-----------------------------------------------------------------------------
(* The system *)

Init ==
    /\ tabela = << >>
    /\ agora = 0
    /\ conexoes = {}
    /\ bpc = "start"
    /\ execucoes = 0
    /\ resposta = SemResposta
    /\ saida = ""
    /\ dados_brutos = Nada
    /\ dados_filtrados = Nada
    /\ wconn = SemConexao
    /\ transacao = << >>
    /\ werro = FALSE
    /\ antes = << >>
    /\ eventos = << >>
    /\ req = [ r \in Reqs |-> ReqVazio ]

\* the batch script, whatever the weather service answers
Lote(entradas) ==
    \/ \E o \in entradas : Buscar(o)
    \/ Extrair
    \/ \E ok \in BOOLEAN : Conectar(ok)
    \/ \E ok \in BOOLEAN, d \in 0 .. 1 : Inserir(ok, d)
    \/ \E ok \in BOOLEAN : Commit(ok)
    \/ Sair

NextLote == Lote(Respostas)

\* the batch script alone, over every answer of the weather service
SpecLote == Init /\ [][NextLote]_vars

Next ==
    \/ Lote(RespostasBasicas)
    \/ \E r \in Reqs, ok \in BOOLEAN : Receber(r, Todos, << >>, ok)
    \/ \E r \in Reqs, c \in Textos, ok \in BOOLEAN : Receber(r, PorCidade, c, ok)
    \/ \E r \in Reqs, dbok \in BOOLEAN : Consultar(r, dbok)
    \/ \E r \in Reqs : Devolver(r)

Spec == Init /\ [][Next]_vars

-----------------------------------------------------------------------------
(* Vocabulary of the properties *)

Imagem(f) == { f[i] : i \in DOMAIN f }

Vezes(seq, x) == Cardinality({ i \in DOMAIN seq : seq[i] = x })

\* the same rows, each as many times, whatever the order
MesmasLinhas(a, b) ==
    /\ Len(a) = Len(b)
    /\ \A x \in Imagem(a) \cup Imagem(b) : Vezes(a, x) = Vezes(b, x)

NovasPrimeiro(l) ==
    \A i, j \in DOMAIN l : i < j => l[i]["data_insercao"] >= l[j]["data_insercao"]

\* s contains t as a substring, ignoring case
Contem(s, t) ==
    \E i \in 0 .. (Len(s) - Len(t)) :
        SubSeq(Minusculas(s), i + 1, i + Len(t)) = Minusculas(t)

RECURSIVE Filtrar(_, _)
\* the rows of t whose city name contains the text, in table order
Filtrar(t, texto) ==
    IF t = << >> THEN << >>
    ELSE IF Contem(Head(t)["cidade"], texto)
         THEN << Head(t) >> \o Filtrar(Tail(t), texto)
         ELSE Filtrar(Tail(t), texto)

Respondidas(ep) == { r \in Reqs : req[r].pc = "responded" /\ req[r].endpoint = ep }

SalvarTerminou == bpc = "exit" /\ "connect" \in Imagem(eventos)

Ciclo == << "http", "extract", "connect", "insert", "commit" >>

FalhaDeBusca == resposta.kind \in { "http", "network", "badjson" }

TipoDeFalha(o) == IF o.kind = "http" THEN << "http", o.status >> ELSE << o.kind >>

-----------------------------------------------------------------------------
(* Properties *)

\* C1: when salvar_dados_no_bd has run for a fully populated record, either no
\* exception occurred and the table is the table it found plus exactly one row
\* whose ten fields equal the record's, or an exception occurred (connect, execute
\* or commit) and the table is the table it found.
C1_EscritaExata ==
    SalvarTerminou =>
        IF werro
        THEN tabela = antes
        ELSE /\ Len(tabela) = Len(antes) + 1
             /\ SubSeq(tabela, 1, Len(antes)) = antes
             /\ Cardinality(Chaves) = 10
             /\ \A k \in Chaves : tabela[Len(tabela)][k] = dados_filtrados[k]

C1_Witness ==
    /\ SalvarTerminou
    /\ ~werro
    /\ Len(antes) = 1
    /\ Len(tabela) = 2

\* C2: GET /clima with a reachable database answers 200 with exactly the N rows
\* the table held when it was queried, newest data_insercao first; for N = 0 that
\* is 200 with the empty list.
C2_ListaTodos ==
    \A r \in Respondidas(Todos) :
        ~req[r].dbfalhou =>
            /\ req[r].status = 200
            /\ MesmasLinhas(req[r].body, req[r].visto)
            /\ NovasPrimeiro(req[r].body)

C2_Witness ==
    \E r \in Respondidas(Todos) :
        /\ req[r].status = 200
        /\ Len(req[r].body) = 2
        /\ req[r].body[1]["data_insercao"] > req[r].body[2]["data_insercao"]

\* C3: GET /clima/{city} returns exactly the stored rows whose city name contains
\* the request text as a substring ignoring case, newest first, and no row whose
\* name does not contain it.
C3_SubstringExato ==
    \A r \in Respondidas(PorCidade) :
        ~req[r].dbfalhou =>
            /\ MesmasLinhas(req[r].body, Filtrar(req[r].visto, req[r].cidade))
            /\ NovasPrimeiro(req[r].body)

\* C4: GET /clima/{city} answers 404 exactly when the query succeeds and no stored
\* row's city name contains the request text; it never answers 200 with an empty
\* list; GET /clima never answers 404.
C4_404SemRegistro ==
    /\ \A r \in Respondidas(PorCidade) :
          /\ req[r].status = 404 <=>
                (~req[r].dbfalhou /\ Filtrar(req[r].visto, req[r].cidade) = << >>)
          /\ req[r].status = 200 => req[r].body # << >>
    /\ \A r \in Respondidas(Todos) : req[r].status # 404

\* C5: on either endpoint, a request whose connection could not be opened or whose
\* cursor/query/fetch raised a database error is answered 500, never 200 or 404.
C5_FalhaDoBancoDa500 ==
    \A r \in Reqs :
        (req[r].pc = "responded" /\ req[r].dbfalhou) => req[r].status = 500

C5_Witness ==
    \E r \in Respondidas(Todos) :
        /\ req[r].dbfalhou
        /\ req[r].conn # SemConexao
        /\ req[r].visto # << >>

\* C6: for a weather body in which one of the ten required fields is absent,
\* extrair_info_interesse returns failure (None) and the script ends without a
\* database write attempt.
C6_ExtracaoTudoOuNada ==
    ( /\ bpc \notin { "start", "fetched" }
      /\ resposta.kind = "ok"
      /\ resposta.body \in Incompletos(Completo(Floripa)) )
    => /\ bpc = "exit"
       /\ dados_filtrados = Nada
       /\ "connect" \notin Imagem(eventos)

\* C7: an invocation whose fetch failed makes no database connection and no
\* insert; every invocation makes at most one HTTP request and at most one
\* insert, and its external calls come in the order fetch, extract, write.
C7_SemEscritaSemRepeticao ==
    /\ FalhaDeBusca =>
          /\ bpc \in { "fetched", "exit" }
          /\ "connect" \notin Imagem(eventos)
          /\ "insert" \notin Imagem(eventos)
          /\ transacao = << >>
    /\ Vezes(eventos, "http") <= 1
    /\ Vezes(eventos, "insert") <= 1
    /\ Len(eventos) <= Len(Ciclo)
    /\ eventos = SubSeq(Ciclo, 1, Len(eventos))

C7_Witness ==
    /\ FalhaDeBusca
    /\ bpc = "exit"
    /\ execucoes = 2
    /\ tabela # << >>

\* C8: the open connections are exactly those of the invocations in flight, one
\* each: a request that has answered (200, 404 or 500) and a writer that has
\* finished hold none, and a request's query ran on the connection it opened.
C8_ConexoesFechadas ==
    /\ conexoes =
          { [ id |-> req[r].conn, dono |-> r ] : r \in { q \in Reqs : req[q].pc = "connected" } }
          \cup ( IF bpc \in { "w_connected", "w_executed" }
                 THEN { [ id |-> wconn, dono |-> "lote" ] } ELSE {} )
    /\ \A r \in Reqs : (req[r].pc = "responded" /\ req[r].usou # "") => req[r].usou = r
    /\ ( (\A r \in Reqs : req[r].pc \in { "idle", "responded" })
         /\ bpc \notin { "w_connected", "w_executed" } ) => conexoes = {}

C8_Witness ==
    \E r, q \in Reqs :
        /\ r # q
        /\ req[r].pc = "responded" /\ req[r].status = 404 /\ req[r].usou = r
        /\ req[q].pc = "connected"
        /\ bpc = "w_executed"
        /\ Cardinality(conexoes) = 2

\* C9: every step keeps the rows already stored, in place and unchanged, and a
\* step of a query request (whatever its outcome) leaves the table as it was.
C9_SomenteAcrescenta ==
    [][ /\ Len(tabela') >= Len(tabela)
        /\ SubSeq(tabela', 1, Len(tabela)) = tabela
        /\ req' # req => tabela' = tabela ]_vars

C9_Witness ==
    /\ Len(tabela) = 2
    /\ \E r \in Respondidas(PorCidade) : req[r].status = 404 /\ Len(req[r].visto) = 1
    /\ \E r \in Reqs : req[r].pc = "connected"

====
